---- MODULE Spec2Model ----
(***************************************************************************)
(* Model of the TPU head outside-compilation extraction pass               *)
(* (tensorflow/compiler/mlir/tensorflow/transforms/                        *)
(*  tpu_extract_head_tail_outside_compilation.cc).                         *)
(*                                                                         *)
(* The IR is an arena: operations are numbered, a Value is a triple        *)
(*   <<"in", i, 0>>      value i defined above every cluster               *)
(*   <<"op", id, k>>     result k of operation id                          *)
(*   <<"launch", l, k>>  result k of tf_device.launch l                    *)
(* an operation ("item" of a block) is a pair                              *)
(*   <<"op", id>>, <<"cluster", c>>, <<"launch", l>>, <<"ret", l>>         *)
(* (<<"ret", l>> is the tf_device.return terminator of launch l), a use    *)
(* (an OpOperand) is <<kind, id, slot>> of its owner, and a region is      *)
(* Top, <<"cluster", c>> or <<"launch", l>>.  Every Value has an ordered   *)
(* use list, as MLIR keeps it (an intrusive list, new uses at the front).  *)
(***************************************************************************)
EXTENDS Integers, Sequences, FiniteSets, TLC

\* ---- bounds of the model -------------------------------------------------
MaxSize == 5      \* sum over the operations of (#operands + #results)
NumInputs == 2    \* values defined above the clusters
NumClusters == 2  \* tf_device.cluster operations in the module
MaxArity == 2     \* operands per operation
MaxResults == 2   \* results per operation
MaxRuns == 2      \* runs of the pass over the same module

Range(s) == {s[i] : i \in DOMAIN s}

Min(a, b) == IF a < b THEN a ELSE b

Top == <<"top", 0>>
ClusterRegion(c) == <<"cluster", c>>
LaunchRegion(l) == <<"launch", l>>
NoUse == <<"none", 0, 0>>

InputValues == {<<"in", i, 0>> : i \in 1..NumInputs}

\* ---- the IR: accessors ----------------------------------------------------
\* G = [ops, rets, blocks, uses]:
\*   ops[id]     = [tag, operands, nres]
\*   rets[l]     = operands of the terminator of launch l
\*   blocks[r]   = the operations of region r, in block order
\*   uses[v]     = the use list of Value v, first use first

Owner(use) == <<use[1], use[2]>>

Operands(G, item) ==
  IF item[1] = "op" THEN G.ops[item[2]].operands
  ELSE IF item[1] = "ret" THEN G.rets[item[2]]
  ELSE <<>>

Results(G, item) ==
  IF item[1] = "op" THEN [k \in 1..G.ops[item[2]].nres |-> <<"op", item[2], k>>]
  ELSE IF item[1] = "launch"
       THEN [k \in 1..Len(G.rets[item[2]]) |-> <<"launch", item[2], k>>]
  ELSE <<>>

RegionOfItem(G, item) ==
  CHOOSE r \in DOMAIN G.blocks : item \in Range(G.blocks[r])

\* Value::getParentRegion
ValueRegion(G, v) ==
  IF v[1] = "in" THEN Top ELSE RegionOfItem(G, <<v[1], v[2]>>)

\* ---- llvm::SetVector: a sequence without duplicates ----------------------
SetVectorInsert(sv, x) == IF x \in Range(sv) THEN sv ELSE Append(sv, x)

RECURSIVE SetVectorInsertAll(_, _)
SetVectorInsertAll(sv, xs) ==
  IF xs = <<>> THEN sv
  ELSE SetVectorInsertAll(SetVectorInsert(sv, Head(xs)), Tail(xs))

\* ---- head-set identification ---------------------------------------------
\* a plausible slip: the attribute is not looked at
HasOutsideCompilationAttribute_Any(G, op) == op[1] = "op"

HasOutsideCompilationAttribute(G, op) ==
  op[1] = "op" /\ G.ops[op[2]].tag

\* a plausible slip: only the first operand is looked up
OpContainsOperandsFromSet_FirstOnly(G, op, input_value_set) ==
  Operands(G, op) = <<>> \/ Operands(G, op)[1] \in Range(input_value_set)

OpContainsOperandsFromSet(G, op, input_value_set) ==
  \A i \in DOMAIN Operands(G, op) : Operands(G, op)[i] \in Range(input_value_set)

\* a plausible slip: the operands are not looked up
RecordOutsideCompiledOpsAndUsages_TagOnly(G, op, st) ==
  IF HasOutsideCompilationAttribute(G, op)
  THEN [ops |-> SetVectorInsert(st.ops, op),
        usages |-> SetVectorInsertAll(st.usages, Results(G, op))]
  ELSE st

\* st = [ops |-> outside_compiled_ops, usages |-> outside_compiled_op_usages]
RecordOutsideCompiledOpsAndUsages(G, op, st) ==
  IF HasOutsideCompilationAttribute(G, op)
     /\ OpContainsOperandsFromSet(G, op, st.usages)
  THEN [ops |-> SetVectorInsert(st.ops, op),
        usages |-> SetVectorInsertAll(st.usages, Results(G, op))]
  ELSE st

\* the loops over getUses(): the owner of each use, in use-list order
RECURSIVE RecordUsers(_, _, _)
RecordUsers(G, useSeq, st) ==
  IF useSeq = <<>> THEN st
  ELSE RecordUsers(G, Tail(useSeq),
                   RecordOutsideCompiledOpsAndUsages(G, Owner(Head(useSeq)), st))

\* the uses of all results of one operation, result by result
RECURSIVE UsesOfResults(_, _)
UsesOfResults(G, results) ==
  IF results = <<>> THEN <<>>
  ELSE G.uses[Head(results)] \o UsesOfResults(G, Tail(results))

\* the uses visited by the loops of lines 87-96, in visiting order
RECURSIVE UsesOfOps(_, _)
UsesOfOps(G, opSeq) ==
  IF opSeq = <<>> THEN <<>>
  ELSE UsesOfResults(G, Results(G, Head(opSeq))) \o UsesOfOps(G, Tail(opSeq))

\* the while loop of lines 85-103; acc = [ops |-> outside_compiled_ops,
\* usages |-> values_used_in_host_cluster]
RECURSIVE ConnectedLoop(_, _, _)
ConnectedLoop(G, parent_outside_compiled_ops_at_head, acc) ==
  IF parent_outside_compiled_ops_at_head = <<>> THEN acc
  ELSE LET connected ==
             RecordUsers(G, UsesOfOps(G, parent_outside_compiled_ops_at_head),
                         [ops |-> <<>>, usages |-> acc.usages])
       IN ConnectedLoop(G, connected.ops,
            [ops |-> SetVectorInsertAll(acc.ops,
                                        parent_outside_compiled_ops_at_head),
             usages |-> connected.usages])

\* a plausible slip: the while loop is left out, only the users of the
\* input are recorded
ExtractOutsideCompiledOpsConnectedToHead_UsersOnly(G, input_value, acc) ==
  LET first == RecordUsers(G, G.uses[input_value],
                           [ops |-> <<>>, usages |-> acc.usages])
  IN [ops |-> SetVectorInsertAll(acc.ops, first.ops), usages |-> first.usages]

ExtractOutsideCompiledOpsConnectedToHead(G, input_value, acc) ==
  LET first == RecordUsers(G, G.uses[input_value],
                           [ops |-> <<>>, usages |-> acc.usages])
  IN ConnectedLoop(G, first.ops, [ops |-> acc.ops, usages |-> first.usages])

\* the operands, in walk order, of the operations of a block
RECURSIVE OperandsOfOps(_, _)
OperandsOfOps(G, opSeq) ==
  IF opSeq = <<>> THEN <<>>
  ELSE Operands(G, Head(opSeq)) \o OperandsOfOps(G, Tail(opSeq))

\* a plausible slip: every operand counts, wherever it is defined
GetUsedValuesDefinedAbove_All(G, region) ==
  SetVectorInsertAll(<<>>, OperandsOfOps(G, G.blocks[region]))

\* mlir::getUsedValuesDefinedAbove(region, region, values): the operands of
\* the operations of the region whose parent region is a proper ancestor
GetUsedValuesDefinedAbove(G, region) ==
  LET IsAbove(v) == ValueRegion(G, v) = Top
  IN SetVectorInsertAll(<<>>,
       SelectSeq(OperandsOfOps(G, G.blocks[region]), IsAbove))

RECURSIVE ExtractAll(_, _, _)
ExtractAll(G, input_value_list, acc) ==
  IF input_value_list = <<>> THEN acc
  ELSE ExtractAll(G, Tail(input_value_list),
         ExtractOutsideCompiledOpsConnectedToHead(G, Head(input_value_list), acc))

\* the TODO of lines 106-107 done the simple way: the tagged operations of
\* the body without operands start the head set
IdentifyOutsideCompiledOpsAtHead_NoInputOps(G, c) ==
  LET values_used_in_cluster == GetUsedValuesDefinedAbove(G, ClusterRegion(c))
      NoInput(op) == HasOutsideCompilationAttribute(G, op)
                     /\ Operands(G, op) = <<>>
  IN ExtractAll(G, values_used_in_cluster,
                [ops |-> SelectSeq(G.blocks[ClusterRegion(c)], NoInput),
                 usages |-> values_used_in_cluster])

\* returns [ops |-> outside_compiled_at_head_ops,
\*          usages |-> values_used_in_cluster at the end]
IdentifyOutsideCompiledOpsAtHead(G, c) ==
  LET values_used_in_cluster == GetUsedValuesDefinedAbove(G, ClusterRegion(c))
  IN ExtractAll(G, values_used_in_cluster,
                [ops |-> <<>>, usages |-> values_used_in_cluster])

\* ---- output classification ------------------------------------------------
\* Operation::getUsers(): the owners of the uses of all results
Users(G, op) == {Owner(u) : u \in Range(UsesOfResults(G, Results(G, op)))}

\* the results of op with a use owned by an operation outside the head set
UsedOutside(G, results, head_outside_compiled_ops) ==
  LET Exported(r) == \E u \in Range(G.uses[r]) :
                        Owner(u) \notin Range(head_outside_compiled_ops)
  IN SelectSeq(results, Exported)

\* a plausible slip: only the results that are used outside are appended
RECURSIVE OutputsLoop_UsedOnly(_, _, _)
OutputsLoop_UsedOnly(G, opSeq, head_outside_compiled_ops) ==
  IF opSeq = <<>> THEN <<>>
  ELSE UsedOutside(G, Results(G, Head(opSeq)), head_outside_compiled_ops)
       \o OutputsLoop_UsedOnly(G, Tail(opSeq), head_outside_compiled_ops)

RECURSIVE OutputsLoop(_, _, _)
OutputsLoop(G, opSeq, head_outside_compiled_ops) ==
  IF opSeq = <<>> THEN <<>>
  ELSE (IF \E user \in Users(G, Head(opSeq)) :
             user \notin Range(head_outside_compiled_ops)
        THEN Results(G, Head(opSeq)) ELSE <<>>)
       \o OutputsLoop(G, Tail(opSeq), head_outside_compiled_ops)

GetHeadExtractedClusterOutputs(G, head_outside_compiled_ops) ==
  OutputsLoop(G, head_outside_compiled_ops, head_outside_compiled_ops)

\* ---- mutation ---------------------------------------------------------------
IndexOf(s, x) == CHOOSE i \in DOMAIN s : s[i] = x

RemoveFrom(s, x) == LET Keep(y) == y # x IN SelectSeq(s, Keep)

InsertBefore(s, x, before) ==
  LET i == IndexOf(s, before)
  IN SubSeq(s, 1, i - 1) \o <<x>> \o SubSeq(s, i, Len(s))

\* the Value an OpOperand currently refers to
UseValue(G, use) == Operands(G, Owner(use))[use[3]]

\* IROperand::set: unlink the operand from the use list of its Value, link it
\* at the front of the use list of the new Value
UseSet(G, use, newValue) ==
  LET old == UseValue(G, use)
      unlinked == [G.uses EXCEPT ![old] = RemoveFrom(@, use)]
      linked == [unlinked EXCEPT ![newValue] = <<use>> \o @]
  IN IF use[1] = "op"
     THEN [G EXCEPT !.uses = linked,
                    !.ops[use[2]].operands[use[3]] = newValue]
     ELSE [G EXCEPT !.uses = linked,
                    !.rets[use[2]][use[3]] = newValue]

\* ValueUseIterator::operator++: the next operand in the use list the
\* operand is linked in now
NextUse(G, use) ==
  LET list == G.uses[UseValue(G, use)]
      i == IndexOf(list, use)
  IN IF i < Len(list) THEN list[i + 1] ELSE NoUse

\* the loop of lines 172-175 over output.getUses(), `use` the iterator; the
\* body relinks the operand the iterator stands on, and the iterator goes on
\* in the use list the operand is linked in then
RECURSIVE ReplaceUsesLoop(_, _, _, _)
ReplaceUsesLoop(G, use, head_outside_compiled_ops, newValue) ==
  IF use = NoUse THEN G
  ELSE LET G1 == IF Owner(use) \notin Range(head_outside_compiled_ops)
                 THEN UseSet(G, use, newValue) ELSE G
       IN ReplaceUsesLoop(G1, NextUse(G1, use), head_outside_compiled_ops,
                          newValue)

FirstUse(G, v) == IF G.uses[v] = <<>> THEN NoUse ELSE Head(G.uses[v])

\* the loop of lines 169-176 over llvm::enumerate(output_values)
RECURSIVE ReplaceOutputsLoop(_, _, _, _, _)
ReplaceOutputsLoop(G, output_values, output_index, head_outside_compiled_ops, l) ==
  IF output_index > Len(output_values) THEN G
  ELSE ReplaceOutputsLoop(
         ReplaceUsesLoop(G, FirstUse(G, output_values[output_index]),
                         head_outside_compiled_ops,
                         <<"launch", l, output_index>>),
         output_values, output_index + 1, head_outside_compiled_ops, l)

\* builder->create<tf_device::ReturnOp>: operand k is linked at the front of
\* the use list of output k, operand by operand
RECURSIVE LinkReturnOperands(_, _, _, _)
LinkReturnOperands(uses, output_values, k, l) ==
  IF k > Len(output_values) THEN uses
  ELSE LinkReturnOperands(
         [uses EXCEPT ![output_values[k]] = <<<<"ret", l, k>>>> \o @],
         output_values, k + 1, l)

\* a plausible slip: the operation is cloned before the terminator and the
\* original stays where it was
MoveBefore_Copy(blocks, op, terminator) ==
  LET to == CHOOSE r \in DOMAIN blocks : terminator \in Range(blocks[r])
  IN [blocks EXCEPT ![to] = InsertBefore(@, op, terminator)]

\* Operation::moveBefore(terminator): unlinked from its block, linked in the
\* block of the terminator, right before it
MoveBefore(blocks, op, terminator) ==
  LET from == CHOOSE r \in DOMAIN blocks : op \in Range(blocks[r])
      removed == [blocks EXCEPT ![from] = RemoveFrom(@, op)]
      to == CHOOSE r \in DOMAIN removed : terminator \in Range(removed[r])
  IN [removed EXCEPT ![to] = InsertBefore(@, op, terminator)]

\* the loop of lines 185-186: moveBefore(terminator) for every operation of
\* the head set, in head-set order
RECURSIVE MoveAllBefore(_, _, _)
MoveAllBefore(blocks, opSeq, terminator) ==
  IF opSeq = <<>> THEN blocks
  ELSE MoveAllBefore(MoveBefore(blocks, Head(opSeq), terminator),
                     Tail(opSeq), terminator)

\* the launch an invocation creates
NewLaunch(G) == Len(G.rets) + 1

\* a plausible slip: the terminator is created before the use-sites are
\* redirected
CreateLaunchAndMove_ReturnFirst(G, c, head_outside_compiled_ops) ==
    LET output_values == GetHeadExtractedClusterOutputs(G, head_outside_compiled_ops)
        l == NewLaunch(G)
        parent == RegionOfItem(G, <<"cluster", c>>)
        G1 == [G EXCEPT
                 !.blocks[parent] =
                    InsertBefore(@, <<"launch", l>>, <<"cluster", c>>),
                 !.uses = [k \in {<<"launch", l, i>> :
                                    i \in 1..Len(output_values)} |-> <<>>] @@ @]
        G2 == [G1 EXCEPT
                 !.rets = Append(@, output_values),
                 !.blocks = (LaunchRegion(l) :> <<<<"ret", l>>>>) @@ @,
                 !.uses = LinkReturnOperands(@, output_values, 1, l)]
        G3 == ReplaceOutputsLoop(G2, output_values, 1,
                                 head_outside_compiled_ops, l)
    IN [G3 EXCEPT !.blocks = MoveAllBefore(@, head_outside_compiled_ops,
                                           <<"ret", l>>)]

\* lines 155-188: the launch is built and the operations are moved
CreateLaunchAndMove(G, c, head_outside_compiled_ops) ==
    LET output_values == GetHeadExtractedClusterOutputs(G, head_outside_compiled_ops)
        l == NewLaunch(G)
        parent == RegionOfItem(G, <<"cluster", c>>)
        \* lines 163-165: the launch, before the cluster, one result per output
        G1 == [G EXCEPT
                 !.blocks[parent] =
                    InsertBefore(@, <<"launch", l>>, <<"cluster", c>>),
                 !.uses = [k \in {<<"launch", l, i>> :
                                    i \in 1..Len(output_values)} |-> <<>>] @@ @]
        \* lines 169-176
        G2 == ReplaceOutputsLoop(G1, output_values, 1,
                                 head_outside_compiled_ops, l)
        \* lines 179-182: the block and its terminator
        G3 == [G2 EXCEPT
                 !.rets = Append(@, output_values),
                 !.blocks = (LaunchRegion(l) :> <<<<"ret", l>>>>) @@ @,
                 !.uses = LinkReturnOperands(@, output_values, 1, l)]
        \* lines 185-186
    IN [G3 EXCEPT !.blocks = MoveAllBefore(@, head_outside_compiled_ops,
                                           <<"ret", l>>)]

\* a plausible slip: the early return tests the output list
IsolateHeadExtractedOpsToLaunchOp_OutputsTest(G, c, head_outside_compiled_ops) ==
  IF GetHeadExtractedClusterOutputs(G, head_outside_compiled_ops) = <<>> THEN G
  ELSE CreateLaunchAndMove(G, c, head_outside_compiled_ops)

IsolateHeadExtractedOpsToLaunchOp(G, c, head_outside_compiled_ops) ==
  IF head_outside_compiled_ops = <<>> THEN G
  ELSE CreateLaunchAndMove(G, c, head_outside_compiled_ops)

\* ---- the modules the pass is run on -----------------------------------------
\* The module is built operation by operation, in program order, before the
\* first run of the pass: first the operations of the enclosing block (they
\* precede the clusters), then the body of cluster 1, of cluster 2, ...  An
\* operation reads values defined above the clusters, results of operations
\* of the enclosing block and results of earlier operations of its own
\* block.  The uses of its operands are linked at any
\* place of the use lists, so that every order of every use list is built.
\* The values defined above are interchangeable, so value i + 1 is not read
\* before value i is.
EmptyIR ==
  [ops |-> <<>>,
   rets |-> <<>>,
   blocks |-> (Top :> [c \in 1..NumClusters |-> <<"cluster", c>>])
              @@ [r \in {ClusterRegion(c) : c \in 1..NumClusters} |-> <<>>],
   uses |-> [v \in InputValues |-> <<>>]]

\* the size of the module: operands and results of its operations
Cost(G) ==
  LET RECURSIVE Sum(_)
      Sum(i) == IF i = 0 THEN 0
                ELSE Len(G.ops[i].operands) + G.ops[i].nres + Sum(i - 1)
  IN Sum(Len(G.ops))

BlockAt(loc) == IF loc = 0 THEN Top ELSE ClusterRegion(loc)

\* the block the last operation was appended to
LastLoc(G) ==
  IF G.ops = <<>> THEN 0
  ELSE LET r == RegionOfItem(G, <<"op", Len(G.ops)>>)
       IN IF r = Top THEN 0 ELSE r[2]

VisibleValues(G, loc) ==
  InputValues \cup
  UNION {Range(Results(G, op)) :
           op \in {x \in Range(G.blocks[BlockAt(loc)]) \cup Range(G.blocks[Top]) :
                    x[1] = "op"}}

SeqsUpTo(S, n) == UNION {[1..k -> S] : k \in 0..n}

RECURSIVE InputsInOrder(_, _)
InputsInOrder(operands, read) ==
  IF operands = <<>> THEN TRUE
  ELSE LET v == Head(operands)
       IN IF v[1] # "in" THEN InputsInOrder(Tail(operands), read)
          ELSE /\ v[2] <= read + 1
               /\ InputsInOrder(Tail(operands),
                                IF v[2] = read + 1 THEN read + 1 ELSE read)

InsertAt(s, i, x) == SubSeq(s, 1, i - 1) \o <<x>> \o SubSeq(s, i, Len(s))

\* the use lists after the operands of operation id were linked, slot by slot
RECURSIVE LinkedUses(_, _, _, _)
LinkedUses(uses, id, operands, slot) ==
  IF slot > Len(operands) THEN {uses}
  ELSE UNION {LinkedUses([uses EXCEPT ![operands[slot]] =
                            InsertAt(@, i, <<"op", id, slot>>)],
                         id, operands, slot + 1) :
              i \in 1..(Len(uses[operands[slot]]) + 1)}

AppendOp(G, loc, tag, operands, nres, uses) ==
  LET id == Len(G.ops) + 1
  IN [ops |-> Append(G.ops, [tag |-> tag, operands |-> operands, nres |-> nres]),
      rets |-> G.rets,
      blocks |-> [G.blocks EXCEPT ![BlockAt(loc)] =
                    IF loc = 0
                    THEN InsertBefore(@, <<"op", id>>, <<"cluster", 1>>)
                    ELSE Append(@, <<"op", id>>)],
      uses |-> [k \in {<<"op", id, i>> : i \in 1..nres} |-> <<>>] @@ uses]

\* ---- the pass ---------------------------------------------------------------
VARIABLES
  ir,         \* the module: [ops, rets, blocks, uses]
  pc,         \* "idle", "walk" (between two clusters), "identified"
  failed,     \* signalPassFailure was called in the last run
  todo,       \* the clusters the walk has not visited yet
  cur,        \* the cluster of the last callback, 0 before the first
  head,       \* head_outside_compiled_ops of cluster cur
  avail,      \* values_used_in_cluster when the head set of cur was complete
  inputs,     \* the boundary inputs of cluster cur
  outputs,    \* output_values of cluster cur
  launch,     \* the launch created for cluster cur, 0 if none
  pre,        \* the module before the callback of cluster cur
  start,      \* the module when the last run started
  completed,  \* runs that walked every cluster
  blocked,    \* <<c, op>>: op was a blocked tagged operation of cluster c
  wl          \* IdentifyOutsideCompiledOpsAtHead, statement by statement

vars == <<ir, pc, failed, todo, cur, head, avail, inputs, outputs, launch,
          pre, start, completed, blocked, wl>>

\* no call of IdentifyOutsideCompiledOpsAtHead is followed statement by
\* statement
NoWorklist ==
  [pc |-> "idle", c |-> 0, input_value_list |-> <<>>,
   parent_outside_compiled_ops_at_head |-> <<>>,
   connected_outside_compiled_ops |-> <<>>,
   outside_compiled_ops |-> <<>>,
   values_used_in_host_cluster |-> <<>>,
   uses |-> <<>>,
   again |-> FALSE]

Init ==
  /\ ir = EmptyIR
  /\ pc = "idle"
  /\ failed = FALSE
  /\ todo = <<>>
  /\ cur = 0
  /\ head = <<>>
  /\ avail = <<>>
  /\ inputs = <<>>
  /\ outputs = <<>>
  /\ launch = 0
  /\ pre = ir
  /\ start = ir
  /\ completed = 0
  /\ blocked = {}
  /\ wl = NoWorklist

\* the module gets one more operation, before the pass is run
BuildOp ==
  /\ pc = "idle" /\ completed = 0 /\ ~failed
  /\ wl = NoWorklist
  /\ \E loc \in LastLoc(ir)..NumClusters, tag \in BOOLEAN,
        nres \in 1..Min(MaxResults, MaxSize - Cost(ir)) :
       \E operands \in SeqsUpTo(VisibleValues(ir, loc),
                                Min(MaxArity, MaxSize - Cost(ir) - nres)) :
         /\ InputsInOrder(operands,
                          Cardinality({v \in InputValues : ir.uses[v] # <<>>}))
         /\ \E uses \in LinkedUses(ir.uses, Len(ir.ops) + 1, operands, 1) :
              ir' = AppendOp(ir, loc, tag, operands, nres, uses)
  /\ pre' = ir'
  /\ start' = ir'
  /\ UNCHANGED <<pc, failed, todo, cur, head, avail, inputs, outputs, launch,
                 completed, blocked, wl>>

\* module.walk: the clusters of the module, in block order
ClustersInWalkOrder(G) ==
  LET IsCluster(item) == item[1] = "cluster"
      found == SelectSeq(G.blocks[Top], IsCluster)
  IN [i \in 1..Len(found) |-> found[i][2]]

\* a plausible slip: the failure is signalled but the walk is not skipped
AfterGetDevices_NoReturn(devices_ok) == "walk"

\* what runOnOperation does after GetDevicesFromOp
AfterGetDevices(devices_ok) == IF devices_ok THEN "walk" ELSE "idle"

\* runOnOperation up to the walk; GetDevicesFromOp succeeds or fails
RunOnOperation ==
  /\ pc = "idle"
  /\ completed < MaxRuns
  /\ \E devices_ok \in BOOLEAN :
       /\ failed' = ~devices_ok
       /\ pc' = AfterGetDevices(devices_ok)
       /\ todo' = IF pc' = "walk" THEN ClustersInWalkOrder(ir) ELSE <<>>
  /\ start' = ir
  /\ pre' = ir
  /\ cur' = 0
  /\ head' = <<>>
  /\ avail' = <<>>
  /\ inputs' = <<>>
  /\ outputs' = <<>>
  /\ launch' = 0
  /\ UNCHANGED <<ir, completed, blocked, wl>>

\* history: the tagged operations of cluster c with an operand that is
\* neither a boundary input nor a result of an operation of the head set
BlockedOps(G, c, boundary, headOps) ==
  {op \in Range(G.blocks[ClusterRegion(c)]) :
     /\ op[1] = "op" /\ G.ops[op[2]].tag
     /\ \E i \in DOMAIN Operands(G, op) :
          /\ Operands(G, op)[i] \notin Range(boundary)
          /\ \A h \in Range(headOps) :
               Operands(G, op)[i] \notin Range(Results(G, h))}

\* the callback of the walk, line 206
WalkIdentify ==
  /\ pc = "walk"
  /\ todo # <<>>
  /\ LET c == Head(todo)
         result == IdentifyOutsideCompiledOpsAtHead(ir, c)
         boundary == GetUsedValuesDefinedAbove(ir, ClusterRegion(c))
     IN /\ cur' = c
        /\ head' = result.ops
        /\ avail' = result.usages
        /\ inputs' = boundary
        /\ blocked' = blocked \cup
                      {<<c, op>> : op \in BlockedOps(ir, c, boundary, result.ops)}
  /\ pre' = ir
  /\ pc' = "identified"
  /\ outputs' = <<>>
  /\ launch' = 0
  /\ UNCHANGED <<ir, failed, todo, start, completed, wl>>

\* the callback of the walk, lines 207-208
WalkIsolate ==
  /\ pc = "identified"
  /\ ir' = IsolateHeadExtractedOpsToLaunchOp(ir, cur, head)
  /\ outputs' = IF head = <<>> THEN <<>>
                ELSE GetHeadExtractedClusterOutputs(ir, head)
  /\ launch' = IF Len(ir'.rets) > Len(ir.rets) THEN Len(ir'.rets) ELSE 0
  /\ todo' = Tail(todo)
  /\ pc' = "walk"
  /\ UNCHANGED <<failed, cur, head, avail, inputs, pre, start, completed,
                 blocked, wl>>

\* the walk has visited every cluster: runOnOperation returns
WalkDone ==
  /\ pc = "walk"
  /\ todo = <<>>
  /\ pc' = "idle"
  /\ completed' = completed + 1
  /\ UNCHANGED <<ir, failed, todo, cur, head, avail, inputs, outputs, launch,
                 pre, start, blocked, wl>>

Next == BuildOp \/ RunOnOperation \/ WalkIdentify \/ WalkIsolate \/ WalkDone

Spec == Init /\ [][Next]_vars

\* ---- the head-set worklist, statement by statement ---------------------------
\* IdentifyOutsideCompiledOpsAtHead is called for one cluster of a module
\* the pass was not run on yet, and is followed loop iteration by loop
\* iteration.  wl.pc is the loop that runs: "for" (line 120), "first" (line
\* 76), "round" (lines 86-89), or "done" after the return of line 123;
\* wl.uses are the uses the running loop over getUses() has not visited
\* yet; wl.again records that an operation that was in outside_compiled_ops
\* already was recorded once more.

\* a plausible slip: the sets are not swapped at the end of the round
NextParent_NoSwap(parent_outside_compiled_ops_at_head, connected_outside_compiled_ops) ==
  parent_outside_compiled_ops_at_head

\* std::swap, lines 101-102: the operations of the next round
NextParent(parent_outside_compiled_ops_at_head, connected_outside_compiled_ops) ==
  connected_outside_compiled_ops

\* line 120: the loop over input_value_list goes on or the function returns
ForTest(w) ==
  IF w.input_value_list = <<>> THEN [w EXCEPT !.pc = "done"]
  ELSE [w EXCEPT !.pc = "for"]

\* line 85: the while loop goes on with the loops of lines 86-89 over the
\* uses of the results of parent_outside_compiled_ops_at_head, or the call
\* returns
WhileTest(G, w) ==
  IF w.parent_outside_compiled_ops_at_head = <<>> THEN ForTest(w)
  ELSE [w EXCEPT
          !.pc = "round",
          !.connected_outside_compiled_ops = <<>>,
          !.uses = UsesOfOps(G, w.parent_outside_compiled_ops_at_head)]

\* line 76: the loop over input_value.getUses() goes on or is over
FirstLoopTest(G, w) ==
  IF w.uses = <<>> THEN WhileTest(G, w) ELSE [w EXCEPT !.pc = "first"]

\* the cluster the function is followed for.  The clusters are
\* interchangeable for this function: it looks at operands, use lists and
\* tags only, and a module with its cluster bodies exchanged is a module of
\* the family as well, so the call for the first cluster stands for the
\* call for any of them.
tpu_cluster == 1

\* lines 113-119: the boundary inputs, and the list the loop of line 120
\* goes through
IdentifyStart ==
  /\ pc = "idle" /\ completed = 0 /\ ~failed
  /\ wl.pc = "idle"
  /\ LET values_used_in_cluster ==
           GetUsedValuesDefinedAbove(ir, ClusterRegion(tpu_cluster))
     IN wl' = ForTest([NoWorklist EXCEPT
                         !.c = tpu_cluster,
                         !.input_value_list = values_used_in_cluster,
                         !.values_used_in_host_cluster =
                            values_used_in_cluster])
  /\ UNCHANGED <<ir, pc, failed, todo, cur, head, avail, inputs, outputs,
                 launch, pre, start, completed, blocked>>

\* lines 120-122 and 75-76: the call for the next boundary input
ExtractStart ==
  /\ wl.pc = "for"
  /\ \E w \in {[wl EXCEPT
                   !.input_value_list = Tail(@),
                   !.uses = ir.uses[Head(wl.input_value_list)],
                   !.parent_outside_compiled_ops_at_head = <<>>]} :
       wl' = FirstLoopTest(ir, w)
  /\ UNCHANGED <<ir, pc, failed, todo, cur, head, avail, inputs, outputs,
                 launch, pre, start, completed, blocked>>

\* the call of RecordOutsideCompiledOpsAndUsages records the operation
Recorded(G, op, usages) ==
  RecordOutsideCompiledOpsAndUsages(G, op, [ops |-> <<>>, usages |-> usages]).ops
    # <<>>

\* lines 76-81: one iteration of the loop over input_value.getUses()
FirstLoopStep ==
  /\ wl.pc = "first"
  /\ \E head_operation \in {Owner(Head(wl.uses))} :
       \E st \in {RecordOutsideCompiledOpsAndUsages(ir, head_operation,
                      [ops |-> wl.parent_outside_compiled_ops_at_head,
                       usages |-> wl.values_used_in_host_cluster])} :
         \E w \in {[wl EXCEPT
                       !.uses = Tail(@),
                       !.parent_outside_compiled_ops_at_head = st.ops,
                       !.values_used_in_host_cluster = st.usages,
                       !.again = @ \/ (/\ Recorded(ir, head_operation,
                                                   wl.values_used_in_host_cluster)
                                       /\ head_operation
                                            \in Range(wl.outside_compiled_ops))]} :
           wl' = FirstLoopTest(ir, w)
  /\ UNCHANGED <<ir, pc, failed, todo, cur, head, avail, inputs, outputs,
                 launch, pre, start, completed, blocked>>

\* lines 89-94: one iteration of the loop over op_result.getUses()
RoundStep ==
  /\ wl.pc = "round"
  /\ wl.uses # <<>>
  /\ \E connected_op \in {Owner(Head(wl.uses))} :
       \E st \in {RecordOutsideCompiledOpsAndUsages(ir, connected_op,
                      [ops |-> wl.connected_outside_compiled_ops,
                       usages |-> wl.values_used_in_host_cluster])} :
         wl' = [wl EXCEPT
                  !.uses = Tail(@),
                  !.connected_outside_compiled_ops = st.ops,
                  !.values_used_in_host_cluster = st.usages,
                  !.again = @ \/ (/\ Recorded(ir, connected_op,
                                              wl.values_used_in_host_cluster)
                                  /\ connected_op \in
                                       Range(wl.outside_compiled_ops) \cup
                                       Range(wl.parent_outside_compiled_ops_at_head))]
  /\ UNCHANGED <<ir, pc, failed, todo, cur, head, avail, inputs, outputs,
                 launch, pre, start, completed, blocked>>

\* lines 99-102: the end of the round
RoundEnd ==
  /\ wl.pc = "round"
  /\ wl.uses = <<>>
  /\ \E w \in {[wl EXCEPT
                   !.outside_compiled_ops =
                      SetVectorInsertAll(@, wl.parent_outside_compiled_ops_at_head),
                   !.parent_outside_compiled_ops_at_head =
                      NextParent(@, wl.connected_outside_compiled_ops),
                   !.connected_outside_compiled_ops = <<>>]} :
       wl' = WhileTest(ir, w)
  /\ UNCHANGED <<ir, pc, failed, todo, cur, head, avail, inputs, outputs,
                 launch, pre, start, completed, blocked>>

WorklistStep == ExtractStart \/ FirstLoopStep \/ RoundStep \/ RoundEnd

NextWorklist ==
  BuildOp \/ IdentifyStart \/ ExtractStart \/ FirstLoopStep \/ RoundStep
  \/ RoundEnd

\* the function runs to its end: a statement that can be executed is
\* executed
SpecWorklist == Init /\ [][NextWorklist]_vars /\ WF_vars(WorklistStep)

\* ---- properties --------------------------------------------------------------
\* the module is as the callback of cluster cur left it
Mutated == pc \in {"walk", "idle"} /\ cur # 0

\* the use-sites of value v, before the callback, whose owner is not in the
\* head set
ExternalUses(v) == {u \in Range(pre.uses[v]) : Owner(u) \notin Range(head)}

AllItems(G) == UNION {Range(G.blocks[r]) : r \in DOMAIN G.blocks}

HeadResults == UNION {Range(Results(pre, h)) : h \in Range(head)}

\* C1 (as claimed): after the Region Mutator ran, every use-site of every
\* output Value whose owner is not in the head set references the
\* corresponding result of the new launch, and no operation outside the
\* launch body references a result of a moved operation.
C1_AllExternalUsesRedirected ==
  (Mutated /\ launch # 0) =>
    /\ \A i \in DOMAIN outputs :
         \A u \in ExternalUses(outputs[i]) :
           UseValue(ir, u) = <<"launch", launch, i>>
    /\ \A item \in AllItems(ir) \ Range(ir.blocks[LaunchRegion(launch)]) :
         Range(Operands(ir, item)) \cap HeadResults = {}

\* C2: closure.  Every operand of every operation of the head set is a
\* boundary input of the cluster or a result of another operation of the
\* head set.
C2_Closure ==
  pc = "identified" =>
    \A op \in Range(head) :
      \A i \in DOMAIN Operands(ir, op) :
        \/ Operands(ir, op)[i] \in Range(inputs)
        \/ \E h \in Range(head) \ {op} :
             Operands(ir, op)[i] \in Range(Results(ir, h))

\* C2 happens: an operation of the head set reads a boundary input and a
\* result of another operation of the head set
C2_Witness ==
  /\ pc = "identified"
  /\ \E op \in Range(head) :
       /\ \E i \in DOMAIN Operands(ir, op) : Operands(ir, op)[i] \in Range(inputs)
       /\ \E i \in DOMAIN Operands(ir, op) :
            \E h \in Range(head) \ {op} :
              Operands(ir, op)[i] \in Range(Results(ir, h))

\* C3 (as claimed): the operations moved out of the cluster body are, in the
\* launch body, in the relative order they had in the cluster body.
C3_OrderPreserved ==
  (Mutated /\ launch # 0) =>
    LET body == ir.blocks[LaunchRegion(launch)]
        was == pre.blocks[ClusterRegion(cur)]
    IN \A i, j \in DOMAIN body :
         (i < j /\ body[i] \in Range(was) /\ body[j] \in Range(was))
           => IndexOf(was, body[i]) < IndexOf(was, body[j])

\* C4 (as claimed): a non-empty head set with an empty output list creates no
\* launch and leaves the module as it was.
C4_NoLaunchWithoutOutputs ==
  (Mutated /\ head # <<>> /\ outputs = <<>>) => (launch = 0 /\ ir = pre)

\* C4 (amended): a non-empty head set with an empty output list still gets a
\* launch, without results, immediately before the cluster; every operation
\* of the head set is moved into it, in head-set order, before a terminator
\* without operands, and no use-site is redirected.
C4_LaunchWithoutResults ==
  (Mutated /\ head # <<>> /\ outputs = <<>>) =>
    /\ launch = Len(pre.rets) + 1
    /\ ir.rets = Append(pre.rets, <<>>)
    /\ ir.blocks[LaunchRegion(launch)] = head \o <<<<"ret", launch>>>>
    /\ \E i \in DOMAIN ir.blocks[Top] :
         /\ i < Len(ir.blocks[Top])
         /\ ir.blocks[Top][i] = <<"launch", launch>>
         /\ ir.blocks[Top][i + 1] = <<"cluster", cur>>
    /\ \A h \in Range(head) :
         h \notin Range(ir.blocks[ClusterRegion(cur)])
    /\ ir.ops = pre.ops
    /\ ir.uses = pre.uses

\* C4 happens: the head set is not empty, nothing outside it uses its results
C4_Witness ==
  /\ Mutated /\ head # <<>> /\ outputs = <<>>
  /\ \E h \in Range(head) : h \in Range(pre.blocks[ClusterRegion(cur)])

\* C5 (as claimed): a run of the pass on the module a completed run produced
\* finds an empty head set for every cluster and changes nothing.
C5_SecondRunIsNoOp ==
  (completed >= 1 /\ pc # "idle") =>
    (head = <<>> /\ launch = 0 /\ ir = start)

\* C6 (as claimed): a cluster whose body holds no tagged operation leaves the
\* module unchanged and gets no launch.
C6_NoTagNoChange ==
  (Mutated /\ \A op \in Range(pre.blocks[ClusterRegion(cur)]) :
                ~HasOutsideCompilationAttribute(pre, op))
    => (launch = 0 /\ ir = pre)

\* C7: tag exclusivity.  Every operation of a head set and every operation
\* moved into a launch carries the tag, and every value added to the
\* available set is a result of a tagged operation.
C7_TagExclusivity ==
  /\ \A op \in Range(head) : op[1] = "op" /\ ir.ops[op[2]].tag
  /\ \A l \in DOMAIN ir.rets :
       \A item \in Range(ir.blocks[LaunchRegion(l)]) \ {<<"ret", l>>} :
         item[1] = "op" /\ ir.ops[item[2]].tag
  /\ \A v \in Range(avail) \ Range(inputs) : v[1] = "op" /\ ir.ops[v[2]].tag

\* C7 happens: an untagged operation of the cluster has operands and all of
\* them are available, next to a non-empty head set
C7_Witness ==
  /\ pc = "identified"
  /\ head # <<>>
  /\ \E op \in Range(ir.blocks[ClusterRegion(cur)]) :
       /\ ~ir.ops[op[2]].tag
       /\ Operands(ir, op) # <<>>
       /\ Range(Operands(ir, op)) \subseteq Range(avail)
       /\ Range(Operands(ir, op)) \cap HeadResults # {}

\* C8: blocking.  A tagged operation of a cluster that had an operand that
\* was neither a boundary input nor a result of a head-set operation is in
\* no head set and stays in the body of its cluster.
C8_Blocking ==
  \A b \in blocked :
    /\ b[2] \notin Range(head)
    /\ b[2] \in Range(ir.blocks[ClusterRegion(b[1])])

\* C8 happens: the pass is over, it moved an operation out of the cluster,
\* and an operation of the cluster is blocked by a result of an operation
\* that is tagged itself
C8_Witness ==
  /\ pc = "idle" /\ completed >= 1
  /\ \E b \in blocked :
       /\ \E l \in DOMAIN ir.rets :
            \E h \in Range(ir.blocks[LaunchRegion(l)]) :
              h \in Range(start.blocks[ClusterRegion(b[1])])
       /\ \E i \in DOMAIN Operands(ir, b[2]) :
            LET v == Operands(ir, b[2])[i]
            IN /\ v[1] = "op" /\ ir.ops[v[2]].tag
               /\ <<"op", v[2]>> \in Range(ir.blocks[ClusterRegion(b[1])])

\* the operations of the head set with a result that has a use-site outside
\* the head set, before the callback
Exporting == {h \in Range(head) :
                \E r \in Range(Results(pre, h)) : ExternalUses(r) # {}}

\* C9: output completeness.  The output list holds exactly the results of
\* the exporting operations, every result once, ordered by the position of
\* the operation in the head set and then by result number.
C9_OutputCompleteness ==
  (Mutated /\ head # <<>>) =>
    /\ Range(outputs) = UNION {Range(Results(pre, h)) : h \in Exporting}
    /\ \A i, j \in DOMAIN outputs :
         i < j =>
           LET a == outputs[i]
               b == outputs[j]
               ia == IndexOf(head, <<"op", a[2]>>)
               ib == IndexOf(head, <<"op", b[2]>>)
           IN ia < ib \/ (ia = ib /\ a[3] < b[3])

\* C9 happens: the output list holds a result without any use-site next to
\* the used result of the same operation
C9_Witness ==
  /\ Mutated /\ head # <<>>
  /\ \E i, j \in DOMAIN outputs :
       /\ pre.uses[outputs[i]] = <<>>
       /\ ExternalUses(outputs[j]) # {}
       /\ outputs[i][2] = outputs[j][2]

\* C10: a failure of GetDevicesFromOp ends the run before the walk: no
\* cluster is visited and the module is the one the run started with.
C10_FailureAborts ==
  failed => (pc = "idle" /\ todo = <<>> /\ cur = 0 /\ launch = 0 /\ ir = start)

\* C10 happens: the run failed on a module whose first cluster has a
\* non-empty head set
C10_Witness ==
  /\ failed
  /\ IdentifyOutsideCompiledOpsAtHead(ir, 1).ops # <<>>

\* C11 (as claimed): regions do not interact.  The callback of one cluster
\* moves no operation out of the body of any other cluster and changes no
\* operand of an operation of the body of any other cluster.
C11_RegionsDoNotInteract ==
  Mutated =>
    \A c \in (1..NumClusters) \ {cur} :
      /\ ir.blocks[ClusterRegion(c)] = pre.blocks[ClusterRegion(c)]
      /\ \A op \in Range(pre.blocks[ClusterRegion(c)]) :
           Operands(ir, op) = Operands(pre, op)

\* the number of places of the module an item is linked at
Occurrences(G, item) ==
  Cardinality({p \in UNION {{<<r, i>> : i \in DOMAIN G.blocks[r]} :
                              r \in DOMAIN G.blocks} :
                 G.blocks[p[1]][p[2]] = item})

\* C12: moving is not copying.  After the callback every operation of the
\* head set is linked exactly once, in the body of the new launch, with the
\* operands it had before (none of them redirected to a launch result), and
\* the body of the cluster is its former sequence without the operations of
\* the head set, the others in unchanged order.
C12_MovingIsNotCopying ==
  (Mutated /\ launch # 0) =>
    /\ \A h \in Range(head) :
         /\ h \in Range(ir.blocks[LaunchRegion(launch)])
         /\ Occurrences(ir, h) = 1
         /\ Operands(ir, h) = Operands(pre, h)
         /\ \A i \in DOMAIN Operands(ir, h) : Operands(ir, h)[i][1] # "launch"
    /\ LET Stays(op) == op \notin Range(head)
       IN ir.blocks[ClusterRegion(cur)] =
            SelectSeq(pre.blocks[ClusterRegion(cur)], Stays)

\* C12 happens: an operation moved out of the body of the cluster reads a
\* result of another moved operation, and an operation stays in the body
C12_Witness ==
  /\ Mutated /\ launch # 0
  /\ ir.blocks[ClusterRegion(cur)] # <<>>
  /\ \E h, g \in Range(head) \cap Range(pre.blocks[ClusterRegion(cur)]) :
       /\ h # g
       /\ Range(Operands(pre, h)) \cap Range(Results(pre, g)) # {}

\* the worklist followed statement by statement returns what
\* IdentifyOutsideCompiledOpsAtHead returns
WorklistAgrees ==
  wl.pc = "done" =>
    LET result == IdentifyOutsideCompiledOpsAtHead(ir, wl.c)
    IN /\ wl.outside_compiled_ops = result.ops
       /\ wl.values_used_in_host_cluster = result.usages

\* C13: termination.  Once IdentifyOutsideCompiledOpsAtHead was called for a
\* cluster, every while loop over parent_outside_compiled_ops_at_head reaches
\* an empty round and the function returns, although operations that are in
\* outside_compiled_ops already are recorded again in later rounds.
C13_Terminates == (wl.pc # "idle") ~> (wl.pc = "done")

\* C13 happens: the function returned, and an operation that was in
\* outside_compiled_ops already was recorded once more on the way
C13_Witness ==
  /\ wl.pc = "done"
  /\ wl.again
  /\ wl.outside_compiled_ops # <<>>

\* no operation of the body of cluster c reads a value defined outside the
\* body
SelfContained(G, c) ==
  \A op \in Range(G.blocks[ClusterRegion(c)]) :
    \A i \in DOMAIN Operands(G, op) :
      ValueRegion(G, Operands(G, op)[i]) = ClusterRegion(c)

\* C14: a cluster whose body reads no value defined outside of it gets an
\* empty head set, no launch is created and the module is left as it was,
\* whatever tagged operations the body holds.
C14_NoBoundaryInputs ==
  (cur # 0 /\ SelfContained(pre, cur)) =>
    /\ head = <<>>
    /\ Mutated => (launch = 0 /\ ir = pre)

\* C14 happens: the callback is over for a cluster without boundary inputs
\* whose body holds a tagged operation without operands and a tagged
\* operation that reads its result
C14_Witness ==
  /\ Mutated /\ SelfContained(pre, cur)
  /\ \E z, d \in Range(pre.blocks[ClusterRegion(cur)]) :
       /\ pre.ops[z[2]].tag /\ Operands(pre, z) = <<>>
       /\ pre.ops[d[2]].tag
       /\ Range(Operands(pre, d)) \cap Range(Results(pre, z)) # {}

\* C15 (as claimed): def-before-use in the launch body.  Every operation of the head set
\* is in the body of the new launch, after every operation of the head set
\* that produces one of its operands, and the terminator is the last
\* operation of the body.
C15_DefBeforeUse ==
  (Mutated /\ launch # 0) =>
    LET body == ir.blocks[LaunchRegion(launch)]
    IN /\ body[Len(body)] = <<"ret", launch>>
       /\ Range(body) = Range(head) \cup {<<"ret", launch>>}
       /\ \A i, j \in 1..(Len(body) - 1) :
            Range(Operands(ir, body[j])) \cap Range(Results(ir, body[i])) # {}
              => i < j

\* C16: the launch is the operation right before the cluster, it has one
\* result per entry of the output list, its terminator is the last operation
\* of its body and returns the output list itself, entry by entry (results
\* of moved operations, never a result of a launch), and a use-site of
\* output i that was redirected references result i of the launch.
C16_LaunchAndTerminator ==
  (Mutated /\ launch # 0) =>
    LET block == ir.blocks[RegionOfItem(ir, <<"cluster", cur>>)]
        body == ir.blocks[LaunchRegion(launch)]
    IN /\ IndexOf(block, <<"cluster", cur>>) > 1
       /\ block[IndexOf(block, <<"cluster", cur>>) - 1] = <<"launch", launch>>
       /\ {k \in 1..(Len(outputs) + 1) :
             <<"launch", launch, k>> \in DOMAIN ir.uses} = 1..Len(outputs)
       /\ body[Len(body)] = <<"ret", launch>>
       /\ ir.rets[launch] = outputs
       /\ \A i \in DOMAIN outputs :
            /\ <<"op", outputs[i][2]>> \in Range(head)
            /\ <<"op", outputs[i][2]>> \in Range(body)
            /\ <<"ret", launch, i>> \in Range(ir.uses[outputs[i]])
            /\ \A u \in ExternalUses(outputs[i]) :
                 UseValue(ir, u) \in {outputs[i], <<"launch", launch, i>>}

\* C16 happens: the launch has two results and a use-site was redirected to
\* the second
C16_Witness ==
  /\ Mutated /\ launch # 0
  /\ Len(outputs) = 2
  /\ \E u \in ExternalUses(outputs[2]) :
       UseValue(ir, u) = <<"launch", launch, 2>>

\* the level-synchronous worklist: the frontier is the consumers of the
\* available values that are not in the head set; the accepted operations
\* of a round are the tagged operations of the frontier whose operands are
\* all available; their results become available after the round
RECURSIVE LevelSynchronous(_, _, _)
LevelSynchronous(G, available, head_set) ==
  LET frontier == {Owner(u) : u \in UNION {Range(G.uses[v]) : v \in available}}
                  \ head_set
      accepted == {op \in frontier :
                     /\ op[1] = "op" /\ G.ops[op[2]].tag
                     /\ Range(Operands(G, op)) \subseteq available}
  IN IF accepted = {} THEN head_set
     ELSE LevelSynchronous(G,
            available \cup UNION {Range(Results(G, op)) : op \in accepted},
            head_set \cup accepted)

\* C17: the head set IdentifyOutsideCompiledOpsAtHead returns holds the
\* operations the level-synchronous worklist started with the boundary
\* inputs returns, whatever the order of the boundary inputs and of the use
\* lists is.
C17_SameAsLevelSynchronous ==
  pc = "identified" =>
    Range(head) = LevelSynchronous(ir, Range(inputs), {})

\* C17 happens: an operation of the head set reads a boundary input and a
\* result of another operation of the head set, and in the use list of the
\* boundary input the use of its producer comes first, so that both are
\* recorded by the same loop
C17_Witness ==
  /\ pc = "identified"
  /\ \E p, x \in Range(head) : \E v \in Range(inputs) :
       /\ Range(Operands(ir, x)) \cap Range(Results(ir, p)) # {}
       /\ \E i, j \in DOMAIN ir.uses[v] :
            /\ i < j
            /\ Owner(ir.uses[v][i]) = p
            /\ Owner(ir.uses[v][j]) = x

\* C18 (as claimed): every operation of the head set of a cluster is an
\* operation of the body of that cluster.
C18_HeadSetInsideBody ==
  cur # 0 => \A h \in Range(head) : h \in Range(pre.blocks[ClusterRegion(cur)])

\* the operations that read a result of an operation of S, directly or
\* through other operations
RECURSIVE Dependents(_, _)
Dependents(G, S) ==
  LET more == {d \in {<<"op", id>> : id \in DOMAIN G.ops} \ S :
                 \E p \in S :
                   Range(Operands(G, d)) \cap Range(Results(G, p)) # {}}
  IN IF more = {} THEN S ELSE Dependents(G, S \cup more)

\* C19: a tagged operation without operands of the body of a cluster is in
\* no head set and stays in the body, and so does every operation that
\* depends on its results.  (Nothing is to be shown while the head set is
\* empty and the module is the one the run started with.)
C19_ZeroOperandStays ==
  (head # <<>> \/ ir # start) =>
    \A c \in 1..NumClusters :
      \A z \in Range(start.blocks[ClusterRegion(c)]) :
        (start.ops[z[2]].tag /\ Operands(start, z) = <<>>) =>
          \A d \in Dependents(start, {z}) :
            /\ d \notin Range(head)
            /\ d \in Range(ir.blocks[ClusterRegion(c)])

\* C19 happens: the pass is over, it moved an operation out of the body of
\* a cluster, and the body holds a tagged operation without operands and a
\* tagged operation that reads its result
C19_Witness ==
  /\ pc = "idle" /\ completed >= 1
  /\ \E c \in 1..NumClusters :
       /\ \E l \in DOMAIN ir.rets :
            \E h \in Range(ir.blocks[LaunchRegion(l)]) :
              h \in Range(start.blocks[ClusterRegion(c)])
       /\ \E z, d \in Range(ir.blocks[ClusterRegion(c)]) :
            /\ ir.ops[z[2]].tag /\ Operands(ir, z) = <<>>
            /\ ir.ops[d[2]].tag
            /\ Range(Operands(ir, d)) \cap Range(Results(ir, z)) # {}

====
